---- MODULE Spec2Model ----
(***************************************************************************)
(* A model of backend/occserver.py: the indexed mesh extraction            *)
(* (extract_mesh_data), the shape registry (scene_objects) with its        *)
(* create / import / transform handlers, and the recognize-shape handler.  *)
(*                                                                         *)
(* Four specifications share the variables:                                *)
(*   Spec      the handlers that use the registry, one action per handler; *)
(*   SpecFit   the recognize-shape handler next to create requests;        *)
(*   SpecConc  transform requests run by concurrent threads, one action    *)
(*             per statement of transform_shape that touches the shape;    *)
(*   SpecMesh  extract_mesh_data, one action per loop step.                *)
(*                                                                         *)
(* The B-rep kernel is external: its answers (a file reads or not, a       *)
(* bounding box is void or not, meshing is done or not, a face has a       *)
(* triangulation or not) are inputs chosen with \E.  Coordinates are       *)
(* integers and rotations are quarter turns about a coordinate axis, so    *)
(* placements compose exactly.                                             *)
(***************************************************************************)
EXTENDS Integers, Sequences, FiniteSets, TLC

VARIABLES
    \* ---- the process-wide state and the request log (Spec, SpecConc)
    Cylinder,             \* lines 23-27: the fitting class, or None
    scene_objects,        \* line 62: identifier -> stored shape
    nreq,                 \* number of requests served so far
    last,                 \* the latest request of Spec and its result
    moved,                \* per identifier ever inserted: whether only successful
                          \* translation-only requests touched it, and their sum
    threads,              \* SpecConc: the transform request each thread runs
    \* ---- the locals of one extract_mesh_data call (SpecMesh)
    shape,                \* the argument: its location and its faces
    pc,                   \* position in extract_mesh_data
    face_index,
    tri_i,                \* the i of line 148
    corner,               \* position in [n1, n2, n3] of line 151
    face_vertices,
    face_indices,
    vertex_map,
    global_vertices,
    global_indices,
    faces_data,
    face_id_by_triangle,
    mesh_data             \* the returned record (lines 177-182)

serverVars == <<Cylinder, scene_objects, nreq, last, moved>>
meshVars == <<shape, pc, face_index, tri_i, corner, face_vertices, face_indices,
              vertex_map, global_vertices, global_indices, faces_data,
              face_id_by_triangle, mesh_data>>
vars == <<Cylinder, scene_objects, nreq, last, moved, threads, shape, pc, face_index, tri_i,
          corner, face_vertices, face_indices, vertex_map, global_vertices,
          global_indices, faces_data, face_id_by_triangle, mesh_data>>

(***************************************************************************)
(* Bounds                                                                  *)
(***************************************************************************)
MaxFaces == 3
MaxTris == 2
MaxShapes == 2
MaxRequests == 3

(***************************************************************************)
(* Vectors and rigid transforms (gp_Vec, gp_Pnt, gp_Trsf, TopLoc_Location) *)
(***************************************************************************)
None == "None"

Zero3 == <<0, 0, 0>>

VAdd(a, b) == <<a[1] + b[1], a[2] + b[2], a[3] + b[3]>>

VNeg(a) == <<0 - a[1], 0 - a[2], 0 - a[3]>>

Dot(a, b) == a[1] * b[1] + a[2] * b[2] + a[3] * b[3]

IdMat == <<(<<1, 0, 0>>), (<<0, 1, 0>>), (<<0, 0, 1>>)>>

MatVec(m, v) == <<Dot(m[1], v), Dot(m[2], v), Dot(m[3], v)>>

Col(m, j) == <<m[1][j], m[2][j], m[3][j]>>

MatMul(a, b) ==
    [i \in 1..3 |-> [j \in 1..3 |-> Dot(a[i], Col(b, j))]]

\* gp_Trsf(): the identity
IdTrsf == [rot |-> IdMat, tr |-> Zero3]

\* gp_Trsf.SetTranslation(gp_Vec(x, y, z))
SetTranslation(v) == [rot |-> IdMat, tr |-> v]

\* the product a * b of two transforms: b is applied first
Multiplied(a, b) == [rot |-> MatMul(a.rot, b.rot), tr |-> VAdd(MatVec(a.rot, b.tr), a.tr)]

\* gp_Pnt.Transform(T)
Transformed(p, t) == VAdd(MatVec(t.rot, p), t.tr)

\* math.radians followed by the kernel's cos and sin: whole quarter turns
Cos4(deg) == CASE (deg \div 90) % 4 = 0 -> 1
               [] (deg \div 90) % 4 = 2 -> 0 - 1
               [] OTHER -> 0

Sin4(deg) == CASE (deg \div 90) % 4 = 1 -> 1
               [] (deg \div 90) % 4 = 3 -> 0 - 1
               [] OTHER -> 0

\* the cross-product matrix of a unit axis
CrossMat(a) == <<(<<0, 0 - a[3], a[2]>>), (<<a[3], 0, 0 - a[1]>>), (<<0 - a[2], a[1], 0>>)>>

\* gp_Trsf.SetRotation(gp_Ax1(origin, axis), angle), Rodrigues' formula for
\* a unit axis: cos*I + sin*[a]x + (1 - cos)*a*a^T
SetRotation(a, deg) ==
    [rot |-> [i \in 1..3 |-> [j \in 1..3 |->
                 Cos4(deg) * IdMat[i][j] + Sin4(deg) * CrossMat(a)[i][j]
                   + (1 - Cos4(deg)) * a[i] * a[j]]],
     tr |-> Zero3]

\* TopoDS_Shape.Move(TopLoc_Location(T)): the new location is T * old
Move(s, t) == [s EXCEPT !.location = Multiplied(t, s.location)]

(***************************************************************************)
(* extract_mesh_data (lines 107-182), one action per loop step.            *)
(*                                                                         *)
(* A shape here is its location and the faces the explorer has produced    *)
(* so far, in its order; a face is what BRep_Tool.Triangulation gives for  *)
(* it: nothing, or a node table (1-based node identifiers) and a list of   *)
(* triangles.  The explorer's next face is an input of the step that       *)
(* reads it.  The surface classification (lines 123-141) only decorates    *)
(* face_data and is left out.                                              *)
(***************************************************************************)
\* the nodes of a triangulation: nodes 1 and 3 coincide in space
NodeTable == <<(<<0, 0, 0>>), (<<2, 0, 0>>), (<<0, 0, 0>>), (<<0, 2, 0>>)>>

\* the triangles a triangulation is made of: nodes shared between triangles,
\* a node repeated within one, nodes (2, 4) that some lists never reference
TriPool == {<<1, 2, 3>>, <<3, 1, 1>>}

TriLists == UNION {[1..n -> TriPool] : n \in 0..MaxTris}

NoTriangulation == [triangulation |-> FALSE, nodes |-> <<>>, triangles |-> <<>>]

FacePool ==
    {NoTriangulation} \cup
    {[triangulation |-> TRUE, nodes |-> NodeTable, triangles |-> ts] : ts \in TriLists}

\* the placements a meshed shape may carry
LocPool == {Multiplied(SetTranslation(<<5, 0, 0>>), SetRotation(<<0, 0, 1>>, 90))}

\* line 121: f'face_{face_index}'
FaceId(n) == <<"face_", n>>

\* a variant that numbers only the faces that have a triangulation
CountedFaceId(fi, fd) == FaceId(Len(fd))

\* line 121 as the loop uses it
CurrentFaceId(fi, fd) == FaceId(fi)

\* a variant that never finds the node in the map
NeverInMap(vm, node_index) == TRUE

\* line 152: node_index not in vertex_map
NotInMap(vm, node_index) == node_index \notin DOMAIN vm

\* a variant that leaves out the transform of line 156
NodePointAsStored(face, node_index, transform) == face.nodes[node_index]

\* lines 155-157: the node's position, moved by the face's transform
NodePoint(face, node_index, transform) == Transformed(face.nodes[node_index], transform)

\* a variant that takes the offset after the extend of line 171
OffsetAfterExtend(gv, fv) == Len(gv) + Len(fv)

\* line 170: offset = len(global_vertices), taken before the extend of line 171
Offset(gv, fv) == Len(gv)

\* line 172: [i + offset for i in face_indices]
Shifted(fi, offset) == [k \in 1..Len(fi) |-> fi[k] + offset]

\* line 161: [current_face_id] * num_triangles_in_face
Repeated(x, n) == [k \in 1..n |-> x]

\* line 176: [coord for vertex in global_vertices for coord in vertex]
Flat(gv) == [k \in 1..(3 * Len(gv)) |-> gv[((k - 1) \div 3) + 1][((k - 1) % 3) + 1]]

EmptyMap == [n \in {} |-> 0]

InitMeshLocals ==
    /\ pc = "perform"
    /\ face_index = 0
    /\ tri_i = 0
    /\ corner = 1
    /\ face_vertices = <<>>
    /\ face_indices = <<>>
    /\ vertex_map = EmptyMap
    /\ global_vertices = <<>>
    /\ global_indices = <<>>
    /\ faces_data = <<>>
    /\ face_id_by_triangle = <<>>
    /\ mesh_data = None

CurFace == shape.faces[face_index + 1]

\* lines 109-116: mesh.Perform(); raise unless mesh.IsDone()
Perform ==
    /\ pc = "perform"
    /\ \E done \in BOOLEAN : pc' = IF done THEN "explore" ELSE "raised"
    /\ UNCHANGED <<shape, face_index, tri_i, corner, face_vertices, face_indices,
                   vertex_map, global_vertices, global_indices, faces_data,
                   face_id_by_triangle, mesh_data>>
    /\ UNCHANGED <<serverVars, threads>>

\* lines 118-145, 173-174: a face for which Triangulation gives nothing
FaceSkip ==
    /\ pc = "explore"
    /\ face_index < MaxFaces
    /\ shape' = [shape EXCEPT !.faces = Append(shape.faces, NoTriangulation)]
    /\ face_index' = face_index + 1
    /\ UNCHANGED <<pc, tri_i, corner, face_vertices, face_indices,
                   vertex_map, global_vertices, global_indices, faces_data,
                   face_id_by_triangle, mesh_data>>
    /\ UNCHANGED <<serverVars, threads>>

\* lines 118-147: a face with a triangulation
FaceBegin ==
    /\ pc = "explore"
    /\ face_index < MaxFaces
    /\ \E f \in FacePool \ {NoTriangulation} :
          shape' = [shape EXCEPT !.faces = Append(shape.faces, f)]
    /\ face_vertices' = <<>>
    /\ face_indices' = <<>>
    /\ vertex_map' = EmptyMap
    /\ tri_i' = 0
    /\ corner' = 1
    /\ pc' = "triangle"
    /\ UNCHANGED <<face_index, global_vertices, global_indices, faces_data,
                   face_id_by_triangle, mesh_data>>
    /\ UNCHANGED <<serverVars, threads>>

\* lines 148-158: one node of one triangle
NodeStep ==
    /\ pc = "triangle"
    /\ tri_i < Len(CurFace.triangles)
    /\ LET node_index == CurFace.triangles[tri_i + 1][corner]
           new_local_index == Len(face_vertices)
           vm == IF NotInMap(vertex_map, node_index)
                 THEN [n \in DOMAIN vertex_map \cup {node_index} |->
                          IF n = node_index THEN new_local_index ELSE vertex_map[n]]
                 ELSE vertex_map
       IN /\ vertex_map' = vm
          /\ face_vertices' =
                IF NotInMap(vertex_map, node_index)
                THEN Append(face_vertices, NodePoint(CurFace, node_index, shape.location))
                ELSE face_vertices
          /\ face_indices' = Append(face_indices, vm[node_index])
    /\ corner' = (corner % 3) + 1
    /\ tri_i' = IF corner = 3 THEN tri_i + 1 ELSE tri_i
    /\ UNCHANGED <<shape, pc, face_index, global_vertices, global_indices, faces_data,
                   face_id_by_triangle, mesh_data>>
    /\ UNCHANGED <<serverVars, threads>>

\* lines 160-174: record the face and merge it into the global buffers
FaceMerge ==
    /\ pc = "triangle"
    /\ tri_i = Len(CurFace.triangles)
    /\ LET num_triangles_in_face == Len(CurFace.triangles)
           current_face_id == CurrentFaceId(face_index, faces_data)
           offset == Offset(global_vertices, face_vertices)
       IN /\ face_id_by_triangle' =
                face_id_by_triangle \o Repeated(current_face_id, num_triangles_in_face)
          /\ faces_data' = Append(faces_data,
                [id |-> current_face_id, vertices |-> face_vertices,
                 indices |-> face_indices, vertexCount |-> Len(face_vertices),
                 triangleCount |-> num_triangles_in_face])
          /\ global_vertices' = global_vertices \o face_vertices
          /\ global_indices' = global_indices \o Shifted(face_indices, offset)
    /\ face_index' = face_index + 1
    /\ pc' = "explore"
    /\ UNCHANGED <<shape, tri_i, corner, face_vertices, face_indices, vertex_map, mesh_data>>
    /\ UNCHANGED <<serverVars, threads>>

\* lines 118, 176-182: the explorer has no more faces
Return ==
    /\ pc = "explore"
    /\ mesh_data' = [id |-> None, vertices |-> Flat(global_vertices), indices |-> global_indices,
                     faces |-> faces_data, faceIdByTriangle |-> face_id_by_triangle,
                     vertexCount |-> Len(global_vertices),
                     triangleCount |-> Len(global_indices) \div 3,
                     faceCount |-> Len(faces_data)]
    /\ pc' = "done"
    /\ UNCHANGED <<shape, face_index, tri_i, corner, face_vertices, face_indices,
                   vertex_map, global_vertices, global_indices, faces_data,
                   face_id_by_triangle>>
    /\ UNCHANGED <<serverVars, threads>>

(***************************************************************************)
(* The request handlers (lines 184-365).  A JSON object is a function on   *)
(* its keys; a request body is [json |-> whether get_json() yields an      *)
(* object, data |-> that object].  A stored shape is the bounding box of   *)
(* its geometry and its location.                                          *)
(***************************************************************************)
Ids == 1..MaxShapes

\* lines 193, 279, 300: uuid.uuid4().hex, an identifier not handed out before;
\* the k-th shape inserted is named k
uuid4(so) == Cardinality(DOMAIN so) + 1

\* dict.get(key, default)
Get(d, key, default) == IF key \in DOMAIN d THEN d[key] ELSE default

NoBody == [json |-> FALSE, data |-> EmptyMap]

Json(d) == [json |-> TRUE, data |-> d]

VoidBox == [void |-> TRUE, min |-> Zero3, max |-> Zero3]

Box(lo, hi) == [void |-> FALSE, min |-> lo, max |-> hi]

Min2(a, b) == IF a < b THEN a ELSE b

Max2(a, b) == IF a < b THEN b ELSE a

\* brepbndlib.Add(shape, bbox): the box of the located shape
BndBox(s) ==
    IF s.bbox.void THEN VoidBox
    ELSE LET p == Transformed(s.bbox.min, s.location)
             q == Transformed(s.bbox.max, s.location)
         IN Box([i \in 1..3 |-> Min2(p[i], q[i])], [i \in 1..3 |-> Max2(p[i], q[i])])

\* lines 96-99: the centre of a box that is not void
BoxCenter(b) == [i \in 1..3 |-> (b.min[i] + b.max[i]) \div 2]

\* lines 90-105
center_shape(s) ==
    IF BndBox(s).void THEN s
    ELSE Move(s, SetTranslation(VNeg(BoxCenter(BndBox(s)))))

\* BRepPrimAPI_MakeBox(width, height, depth).Shape(); the kernel raises on a
\* dimension that is not positive
MakeBoxRaises(w, h, d) == w <= 0 \/ h <= 0 \/ d <= 0

MakeBox(w, h, d) == [bbox |-> Box(Zero3, <<w, h, d>>), location |-> IdTrsf]

\* BRepPrimAPI_MakeCylinder(ax, radius, height).Shape(), the axis along z
MakeCylinderRaises(r, h) == r <= 0 \/ h <= 0

MakeCylinder(r, h) == [bbox |-> Box(<<0 - r, 0 - r, 0>>, <<r, r, h>>), location |-> IdTrsf]

\* the shape a readable file holds (TransferRoots, OneShape)
OneShape(content) ==
    [bbox |-> IF content = "solid" THEN Box(<<2, 0, 0>>, <<6, 2, 4>>) ELSE VoidBox,
     location |-> IdTrsf]

\* extract_mesh_data seen from a handler: the record carries the identifier
\* and vertices placed by the shape's location at the time of the call
MeshOf(s, id) == [id |-> id, location |-> s.location]

\* line 59
ALLOWED_EXTENSIONS == {<<".", "s", "t", "e", "p">>, <<".", "s", "t", "p">>, <<".", "i", "g", "e", "s">>, <<".", "i", "g", "s">>}

\* str.lower() on the letters that occur
LowerChar(c) ==
    CASE c = "S" -> "s" [] c = "T" -> "t" [] c = "E" -> "e" [] c = "P" -> "p"
      [] c = "I" -> "i" [] c = "G" -> "g" [] c = "A" -> "a" [] OTHER -> c

Lower(str) == [k \in 1..Len(str) |-> LowerChar(str[k])]

\* str.endswith(ext)
EndsWith(str, ext) ==
    /\ Len(ext) <= Len(str)
    /\ SubSeq(str, Len(str) - Len(ext) + 1, Len(str)) = ext

\* a variant that looks for the extension anywhere in the name
allowed_file_anywhere(filename) ==
    \E ext \in ALLOWED_EXTENSIONS : \E k \in 1..Len(filename) :
        /\ k + Len(ext) - 1 <= Len(filename)
        /\ SubSeq(Lower(filename), k, k + Len(ext) - 1) = ext

\* lines 70-72
allowed_file(filename) == \E ext \in ALLOWED_EXTENSIONS : EndsWith(Lower(filename), ext)

\* str.strip("._")
RECURSIVE Strip(_)
Strip(str) ==
    IF str = <<>> THEN str
    ELSE IF Head(str) \in {".", "_"} THEN Strip(Tail(str))
    ELSE IF str[Len(str)] \in {".", "_"} THEN Strip(SubSeq(str, 1, Len(str) - 1))
    ELSE str

\* werkzeug's secure_filename (line 317) on names without separators,
\* blanks or non-ASCII characters: only the strip of "._" acts
secure_filename(filename) == Strip(filename)

\* line 318: os.path.join(UPLOAD_FOLDER, f"{int(time.time())}-{filename}")
FilePath(filename) == <<"t", "e", "m", "p", "/", "1", "-">> \o filename

\* line 188 and line 189: which reader process_step_file picks
ReaderFor(file_path) ==
    IF EndsWith(Lower(file_path), <<".", "s", "t", "e", "p">>)
          \/ EndsWith(Lower(file_path), <<".", "s", "t", "p">>) THEN "STEPControl_Reader"
    ELSE IF EndsWith(Lower(file_path), <<".", "i", "g", "e", "s">>)
          \/ EndsWith(Lower(file_path), <<".", "i", "g", "s">>) THEN "IGESControl_Reader"
    ELSE "unsupported"

\* the file names of the uploads
FileNames == {<<"a", ".", "s", "t", "e", "p">>,
              <<"A", ".", "S", "T", "E", "P">>,
              <<"b", ".", "S", "t", "p">>,
              <<"c", ".", "i", "g", "e", "s">>,
              <<".", "s", "t", "e", "p">>,
              <<"a", ".", "t", "x", "t">>,
              <<"a", "s", "t", "e", "p">>,
              <<"a", ".", "s", "t", "e", "p", ".", "t", "x", "t">>,
              <<>>}

\* line 313: an upload, or a request without the stepFile part
Uploads ==
    {[has_file |-> TRUE, filename |-> n] : n \in FileNames}
      \cup {[has_file |-> FALSE, filename |-> <<>>]}

\* a variant that hands y and z over in the wrong order
TranslationVecSwapped(t) == <<Get(t, "x", 0), Get(t, "z", 0), Get(t, "y", 0)>>

\* line 354: gp_Vec(t.get('x',0), t.get('y',0), t.get('z',0))
TranslationVec(t) == <<Get(t, "x", 0), Get(t, "y", 0), Get(t, "z", 0)>>

\* a variant that also misses a stored shape whose box is void
KnownAndSolid(so, shape_id) == shape_id \in DOMAIN so /\ ~so[shape_id].bbox.void

\* line 348
Known(so, shape_id) == shape_id \in DOMAIN so

\* a variant in which the request moves a private copy of the shape
MoveCopy(so, shape_id, t) == so

\* lines 355 and 359: shape.Move(...) through the reference taken at line 351;
\* the registry holds the same object
MoveStored(so, shape_id, t) == [so EXCEPT ![shape_id] = Move(so[shape_id], t)]

\* lines 194, 280, 301: scene_objects[shape_id] = shape
Store(so, shape_id, s) ==
    [i \in DOMAIN so \cup {shape_id} |-> IF i = shape_id THEN s ELSE so[i]]

\* line 358: gp_Ax1 wants a direction; a null vector has none
AxisRaises(r) == "axis" \notin DOMAIN r \/ r.axis = Zero3

\* line 358
RotationOf(r) == SetRotation(r.axis, Get(r, "angle", 0))

\* the bodies of the requests
BoxBodies == {NoBody, Json([width |-> 4, height |-> 2, depth |-> 6]), Json([width |-> 0])}

CylinderBodies == {NoBody, Json([radius |-> 2, height |-> 4]), Json([radius |-> 0])}

TranslationDicts == {[x |-> 5, y |-> 0, z |-> 0], [y |-> 5, z |-> 0 - 5]}

RotationDicts == {[axis |-> <<0, 0, 1>>, angle |-> 90], [angle |-> 90]}

TransformBodies ==
    {NoBody, Json(EmptyMap)}
      \cup {Json([translation |-> t]) : t \in TranslationDicts}
      \cup {Json([rotation |-> r]) : r \in RotationDicts}
      \cup {Json([translation |-> t, rotation |-> r]) : t \in TranslationDicts, r \in RotationDicts}

PointLists == {<<>>, <<0, 0, 0, 2, 0, 0, 0, 2, 0>>, <<1, 2>>}

RecognizeBodies == {NoBody, Json(EmptyMap)} \cup {Json([points |-> ps]) : ps \in PointLists}

Result(op, id, arg, status, outcome, calls, stored, mesh) ==
    [op |-> op, id |-> id, arg |-> arg, status |-> status, outcome |-> outcome,
     calls |-> calls, stored |-> stored, mesh |-> mesh]

\* a shape that was centred on insertion has had no translation yet
Fresh(s) == [pure |-> ~s.bbox.void, sum |-> Zero3]

\* lines 270-287
CreateBox ==
    /\ nreq < MaxRequests
    /\ Cardinality(DOMAIN scene_objects) < MaxShapes
    /\ \E body \in BoxBodies, meshed \in BOOLEAN :
          LET data == body.data
              shape_id == uuid4(scene_objects)
              width == Get(data, "width", 10)
              height == Get(data, "height", 10)
              depth == Get(data, "depth", 10)
              box_shape == center_shape(MakeBox(width, height, depth))
          IN IF MakeBoxRaises(width, height, depth)
             THEN /\ last' = Result("create_box", 0, body, 500, "processing",
                                    <<"MakeBox">>, 0, None)
                  /\ UNCHANGED <<scene_objects, moved>>
             ELSE /\ scene_objects' = Store(scene_objects, shape_id, box_shape)
                  /\ moved' = Store(moved, shape_id, Fresh(box_shape))
                  /\ last' = IF meshed
                             THEN Result("create_box", shape_id, body, 200, "ok",
                                         <<"MakeBox", "mesh">>, shape_id,
                                         MeshOf(box_shape, shape_id))
                             ELSE Result("create_box", 0, body, 500, "processing",
                                         <<"MakeBox", "mesh">>, shape_id, None)
    /\ nreq' = nreq + 1
    /\ UNCHANGED <<Cylinder, threads, meshVars>>

\* lines 289-308; kernel says whether the kernel builds the axis and the solid
\* from the arguments of lines 297-298 and whether the meshing is done
CreateCylinder ==
    /\ nreq < MaxRequests
    /\ Cardinality(DOMAIN scene_objects) < MaxShapes
    /\ \E body \in CylinderBodies, kernel \in {"ok", "not_built", "mesh_failed"} :
          LET data == body.data
              built == kernel # "not_built"
              meshed == kernel # "mesh_failed"
              shape_id == uuid4(scene_objects)
              radius == Get(data, "radius", 5)
              height == Get(data, "height", 20)
              cylinder_shape == center_shape(MakeCylinder(radius, height))
          IN IF ~built \/ MakeCylinderRaises(radius, height)
             THEN /\ last' = Result("create_cylinder", 0, body, 500, "processing",
                                    <<"MakeCylinder">>, 0, None)
                  /\ UNCHANGED <<scene_objects, moved>>
             ELSE /\ scene_objects' = Store(scene_objects, shape_id, cylinder_shape)
                  /\ moved' = Store(moved, shape_id, Fresh(cylinder_shape))
                  /\ last' = IF meshed
                             THEN Result("create_cylinder", shape_id, body, 200, "ok",
                                         <<"MakeCylinder", "mesh">>, shape_id,
                                         MeshOf(cylinder_shape, shape_id))
                             ELSE Result("create_cylinder", 0, body, 500, "processing",
                                         <<"MakeCylinder", "mesh">>, shape_id, None)
    /\ nreq' = nreq + 1
    /\ UNCHANGED <<Cylinder, threads, meshVars>>

\* lines 310-344 with process_step_file (lines 184-202) and the readers
\* (lines 74-88); kernel is what the kernel makes of the uploaded bytes
ProcessStep ==
    /\ nreq < MaxRequests
    /\ Cardinality(DOMAIN scene_objects) < MaxShapes
    /\ \E upload \in Uploads :
       \E kernel \in IF upload.has_file /\ allowed_file(upload.filename)
                     THEN {"unreadable", "solid", "void", "mesh_failed"}
                     ELSE {"solid"} :
          LET has_file == upload.has_file
              filename == upload.filename
              content == IF kernel = "mesh_failed" THEN "solid" ELSE kernel
              meshed == kernel # "mesh_failed"
              shape_id == uuid4(scene_objects)
              arg == [has_file |-> has_file, filename |-> filename, content |-> content]
              file_path == FilePath(secure_filename(filename))
              reader == ReaderFor(file_path)
              shp == center_shape(OneShape(content))
          IN IF ~has_file \/ filename = <<>> \/ ~allowed_file(filename)
             THEN /\ last' = Result("import", 0, arg, 400, "validation", <<>>, 0, None)
                  /\ UNCHANGED <<scene_objects, moved>>
             ELSE IF reader = "unsupported"
             THEN /\ last' = Result("import", 0, arg, 500, "processing",
                                    <<"save", "remove">>, 0, None)
                  /\ UNCHANGED <<scene_objects, moved>>
             ELSE IF content = "unreadable"
             THEN /\ last' = Result("import", 0, arg, 500, "processing",
                                    <<"save", reader, "remove">>, 0, None)
                  /\ UNCHANGED <<scene_objects, moved>>
             ELSE /\ scene_objects' = Store(scene_objects, shape_id, shp)
                  /\ moved' = Store(moved, shape_id, Fresh(shp))
                  /\ last' = IF meshed
                             THEN Result("import", shape_id, arg, 200, "ok",
                                         <<"save", reader, "mesh", "remove">>, shape_id,
                                         MeshOf(shp, shape_id))
                             ELSE Result("import", 0, arg, 500, "processing",
                                         <<"save", reader, "mesh", "remove">>, shape_id, None)
    /\ nreq' = nreq + 1
    /\ UNCHANGED <<Cylinder, threads, meshVars>>

\* lines 352-355 on the stored shape
Translate(so, shape_id, data) ==
    IF "translation" \in DOMAIN data
    THEN MoveStored(so, shape_id, SetTranslation(TranslationVec(data.translation)))
    ELSE so

\* lines 356-358: does building the rotation raise
RotateRaises(data, accepted) ==
    "rotation" \in DOMAIN data /\ (AxisRaises(data.rotation) \/ ~accepted)

\* lines 356-359 on the stored shape, when nothing raises
Rotate(so, shape_id, data) ==
    IF "rotation" \in DOMAIN data
    THEN MoveStored(so, shape_id, RotationOf(data.rotation))
    ELSE so

\* lines 346-365; kernel says whether the kernel takes the axis of line 358
\* and whether the meshing of line 361 is done
TransformShape ==
    /\ nreq < MaxRequests
    /\ \E shape_id \in Ids, body \in TransformBodies :
       \E kernel \in IF ~Known(scene_objects, shape_id) \/ ~body.json THEN {"ok"}
                     ELSE IF "rotation" \in DOMAIN body.data
                     THEN {"ok", "axis_rejected", "mesh_failed"}
                     ELSE {"ok", "mesh_failed"} :
          LET data == body.data
              accepted == kernel # "axis_rejected"
              meshed == kernel # "mesh_failed"
              so1 == Translate(scene_objects, shape_id, data)
              so2 == Rotate(so1, shape_id, data)
              t_calls == IF "translation" \in DOMAIN data THEN <<"Move">> ELSE <<>>
              r_calls == IF "rotation" \in DOMAIN data THEN <<"Move">> ELSE <<>>
          IN IF ~Known(scene_objects, shape_id)
             THEN /\ last' = Result("transform", shape_id, body, 404, "not_found", <<>>, 0, None)
                  /\ UNCHANGED <<scene_objects, moved>>
             ELSE IF ~body.json
             THEN /\ last' = Result("transform", shape_id, body, 500, "processing", <<>>, 0, None)
                  /\ moved' = [moved EXCEPT ![shape_id].pure = FALSE]
                  /\ UNCHANGED scene_objects
             ELSE IF RotateRaises(data, accepted)
             THEN /\ scene_objects' = so1
                  /\ moved' = [moved EXCEPT ![shape_id].pure = FALSE]
                  /\ last' = Result("transform", shape_id, body, 500, "processing",
                                    t_calls, 0, None)
             ELSE /\ scene_objects' = so2
                  /\ moved' =
                        IF meshed /\ "rotation" \notin DOMAIN data
                        THEN [moved EXCEPT ![shape_id].sum =
                                 IF "translation" \in DOMAIN data
                                 THEN VAdd(@, <<Get(data.translation, "x", 0),
                                                Get(data.translation, "y", 0),
                                                Get(data.translation, "z", 0)>>)
                                 ELSE @]
                        ELSE [moved EXCEPT ![shape_id].pure = FALSE]
                  /\ last' = IF meshed
                             THEN Result("transform", shape_id, body, 200, "ok",
                                         t_calls \o r_calls \o <<"mesh">>, 0,
                                         MeshOf(so2[shape_id], shape_id))
                             ELSE Result("transform", shape_id, body, 500, "processing",
                                         t_calls \o r_calls \o <<"mesh">>, 0, None)
    /\ nreq' = nreq + 1
    /\ UNCHANGED <<Cylinder, threads, meshVars>>

\* lines 205-267; fit is what cyl.fit does with the points
RecognizeShape ==
    /\ nreq < MaxRequests
    /\ \E body \in RecognizeBodies, fit \in {"raises", "no_inliers", "fitted"} :
          LET points_flat == Get(body.data, "points", <<>>)
              arg == [json |-> body.json, data |-> body.data, fit |-> fit]
          IN last' =
                IF Cylinder = "None"
                THEN Result("recognize", 0, arg, 500, "unavailable", <<>>, 0, None)
                ELSE IF ~body.json
                THEN Result("recognize", 0, arg, 500, "fit_failure", <<>>, 0, None)
                ELSE IF points_flat = <<>>
                THEN Result("recognize", 0, arg, 400, "validation", <<>>, 0, None)
                ELSE IF Len(points_flat) % 3 # 0
                THEN Result("recognize", 0, arg, 500, "fit_failure", <<>>, 0, None)
                ELSE IF fit # "fitted"
                THEN Result("recognize", 0, arg, 500, "fit_failure", <<"fit">>, 0, None)
                ELSE Result("recognize", 0, arg, 200, "ok", <<"fit">>, 0, "Cylinder")
    /\ nreq' = nreq + 1
    /\ UNCHANGED <<Cylinder, scene_objects, moved, threads, meshVars>>

\* the process-wide state right after the module is loaded (lines 23-28, 51-66)
InitServer ==
    /\ scene_objects = EmptyMap
    /\ nreq = 0
    /\ last = Result("none", 0, NoBody, 0, "none", <<>>, 0, None)
    /\ moved = EmptyMap

Threads == {"A", "B"}

NoMesh == [id |-> 0, location |-> IdTrsf]

Idle == [pc |-> "idle", shape_id |-> 0, body |-> NoBody, status |-> 0, mesh |-> NoMesh]

InitThreads == threads = [th \in Threads |-> Idle]

\* the bodies of the concurrent transform requests
ConcBodies ==
    {Json([translation |-> [x |-> 5, y |-> 0, z |-> 0],
           rotation |-> [axis |-> <<0, 0, 1>>, angle |-> 90]]),
     Json([translation |-> [y |-> 5, z |-> 0 - 5],
           rotation |-> [axis |-> <<0, 0, 1>>, angle |-> 90]]),
     Json([translation |-> [x |-> 5, y |-> 0, z |-> 0], rotation |-> [angle |-> 90]])}

\* lines 348-351: the lookup, the body and the reference to the stored shape
TBegin(th) ==
    /\ threads[th].pc = "idle"
    /\ \E shape_id \in Ids, body \in ConcBodies \cup {NoBody} :
          threads' = [threads EXCEPT ![th] =
             IF ~Known(scene_objects, shape_id)
             THEN [Idle EXCEPT !.pc = "done", !.shape_id = shape_id, !.body = body,
                               !.status = 404]
             ELSE IF ~body.json
             THEN [Idle EXCEPT !.pc = "done", !.shape_id = shape_id, !.body = body,
                               !.status = 500]
             ELSE [Idle EXCEPT !.pc = "translate", !.shape_id = shape_id, !.body = body]]
    /\ UNCHANGED <<serverVars, meshVars>>

\* lines 352-355
TTranslate(th) ==
    /\ threads[th].pc = "translate"
    /\ scene_objects' = Translate(scene_objects, threads[th].shape_id, threads[th].body.data)
    /\ threads' = [threads EXCEPT ![th].pc = "rotate"]
    /\ UNCHANGED <<Cylinder, nreq, last, moved, meshVars>>

\* lines 356-359; an exception goes to lines 363-365
TRotate(th) ==
    /\ threads[th].pc = "rotate"
    /\ \E accepted \in BOOLEAN :
          IF RotateRaises(threads[th].body.data, accepted)
          THEN /\ threads' = [threads EXCEPT ![th].pc = "done", ![th].status = 500]
               /\ UNCHANGED scene_objects
          ELSE /\ scene_objects' =
                     Rotate(scene_objects, threads[th].shape_id, threads[th].body.data)
               /\ threads' = [threads EXCEPT ![th].pc = "extract"]
    /\ UNCHANGED <<Cylinder, nreq, last, moved, meshVars>>

\* lines 360-362: the same object is stored again and meshed as it is now
TExtract(th) ==
    /\ threads[th].pc = "extract"
    /\ \E meshed \in BOOLEAN :
          threads' = [threads EXCEPT ![th] =
             IF meshed
             THEN [@ EXCEPT !.pc = "done", !.status = 200,
                            !.mesh = MeshOf(scene_objects[threads[th].shape_id],
                                            threads[th].shape_id)]
             ELSE [@ EXCEPT !.pc = "done", !.status = 500]]
    /\ UNCHANGED <<serverVars, meshVars>>


InitMesh ==
    /\ Cylinder = "class"
    /\ InitServer
    /\ InitThreads
    /\ shape \in {[location |-> l, faces |-> <<>>] : l \in LocPool}
    /\ InitMeshLocals

NextMesh == Perform \/ FaceSkip \/ FaceBegin \/ NodeStep \/ FaceMerge \/ Return

SpecMesh == InitMesh /\ [][NextMesh]_vars

\* no extract_mesh_data call is being stepped through
InitNoMesh ==
    /\ shape = [location |-> IdTrsf, faces |-> <<>>]
    /\ InitMeshLocals

\* the handlers that use the registry; none of them reads Cylinder
Init ==
    /\ Cylinder = "class"
    /\ InitServer
    /\ InitThreads
    /\ InitNoMesh

Next == CreateBox \/ CreateCylinder \/ ProcessStep \/ TransformShape

Spec == Init /\ [][Next]_vars

\* the recognize handler, with or without the fitting dependency, next to
\* requests that fill the registry
InitFit ==
    /\ Cylinder \in {"None", "class"}
    /\ InitServer
    /\ InitThreads
    /\ InitNoMesh

NextFit == CreateBox \/ RecognizeShape

SpecFit == InitFit /\ [][NextFit]_vars

\* two request threads (app.run serves each request on its own thread) that
\* each run one transform, next to create requests
NextConc ==
    \/ CreateBox
    \/ \E th \in Threads : TBegin(th) \/ TTranslate(th) \/ TRotate(th) \/ TExtract(th)

SpecConc == Init /\ [][NextConc]_vars


(***************************************************************************)
(* What the source triangulation of a face says, for the mesh claims       *)
(***************************************************************************)
RECURSIVE SumTriangleCount(_)
SumTriangleCount(fd) ==
    IF fd = <<>> THEN 0 ELSE fd[1].triangleCount + SumTriangleCount(Tail(fd))

RECURSIVE SumVertexCount(_)
SumVertexCount(fd) ==
    IF fd = <<>> THEN 0 ELSE fd[1].vertexCount + SumVertexCount(Tail(fd))

\* the p-th node identifier (1-based) that a triangle list references, in
\* source order: corner ((p-1) mod 3) of triangle ((p-1) div 3)
NodeRef(ts, p) == ts[((p - 1) \div 3) + 1][((p - 1) % 3) + 1]

\* the identifiers among the first n references
RefSet(ts, n) == {NodeRef(ts, q) : q \in 1..n}

\* the first reference to the identifier that reference p names
FirstPos(ts, p) ==
    CHOOSE f \in 1..p : NodeRef(ts, f) = NodeRef(ts, p)
                          /\ \A q \in 1..(f - 1) : NodeRef(ts, q) # NodeRef(ts, p)

\* how many distinct identifiers were seen before the first occurrence of
\* the identifier that reference p names
FirstSeenRank(ts, p) == Cardinality(RefSet(ts, FirstPos(ts, p) - 1))

\* the faces explored so far that have a triangulation, as 0-based indices in order
RECURSIVE TriangulatedUpTo(_, _)
TriangulatedUpTo(fs, n) ==
    IF n = 0 THEN <<>>
    ELSE IF fs[n].triangulation THEN Append(TriangulatedUpTo(fs, n - 1), n - 1)
         ELSE TriangulatedUpTo(fs, n - 1)

\* the vertex triple k (0-based) of a flat coordinate list
VertexAt(flat, k) == <<flat[3 * k + 1], flat[3 * k + 2], flat[3 * k + 3]>>

\* C1: in every returned Mesh Record every index is smaller than the number of
\* vertices (len(vertices)/3), and len(faceIdByTriangle) = len(indices)/3 = the
\* sum of triangleCount over faces.
C1_MeshRecordConsistent ==
    pc = "done" =>
        /\ Len(mesh_data.vertices) % 3 = 0
        /\ Len(mesh_data.indices) % 3 = 0
        /\ \A k \in 1..Len(mesh_data.indices) :
              /\ mesh_data.indices[k] >= 0
              /\ mesh_data.indices[k] < Len(mesh_data.vertices) \div 3
        /\ Len(mesh_data.faceIdByTriangle) = Len(mesh_data.indices) \div 3
        /\ Len(mesh_data.indices) \div 3 = SumTriangleCount(mesh_data.faces)

\* a record with triangles from two faces, one face without triangulation
C1_Witness ==
    /\ pc = "done"
    /\ Len(shape.faces) = 3
    /\ Len(mesh_data.faces) = 2
    /\ \E k \in 1..Len(mesh_data.indices) : mesh_data.indices[k] >= 3

\* C6: the face at traversal index n has a sub-mesh iff it has a triangulation,
\* that sub-mesh has id face_n, and a face without triangulation adds nothing:
\* the sub-meshes are exactly the triangulated faces explored so far, in order,
\* and the global buffers hold what those sub-meshes hold and nothing else.
C6_FaceIdsFollowTraversal ==
    pc \in {"explore", "done"} =>
        LET idx == TriangulatedUpTo(shape.faces, face_index)
        IN /\ Len(faces_data) = Len(idx)
           /\ \A s \in 1..Len(faces_data) : faces_data[s].id = FaceId(idx[s])
           /\ \A s, r \in 1..Len(faces_data) :
                 s < r => faces_data[s].id[2] < faces_data[r].id[2]
           /\ \A n \in 0..(face_index - 1) :
                 (\E s \in 1..Len(faces_data) : faces_data[s].id = FaceId(n))
                    <=> shape.faces[n + 1].triangulation
           /\ Len(global_vertices) = SumVertexCount(faces_data)
           /\ Len(global_indices) = 3 * SumTriangleCount(faces_data)
           /\ Len(face_id_by_triangle) = SumTriangleCount(faces_data)
           /\ \A k \in 1..Len(face_id_by_triangle) :
                 \E s \in 1..Len(faces_data) : faces_data[s].id = face_id_by_triangle[k]

\* a skipped face 0 followed by a triangulated face 1: the only sub-mesh is face_1
C6_Witness ==
    /\ pc = "done"
    /\ Len(shape.faces) >= 2
    /\ ~shape.faces[1].triangulation
    /\ shape.faces[2].triangulation
    /\ Len(shape.faces[2].triangles) > 0
    /\ mesh_data.faces[1].id = FaceId(1)

\* C7: for every face with a triangulation, every triangle k and corner j, the
\* face-local vertex and the global vertex that the index lists reference are
\* the j-th node of source triangle k moved by the face's transform, and the
\* global indices are the local ones plus the vertex count before the merge.
C7_MeshReproducesTriangulation ==
    pc = "done" =>
        \A s \in 1..Len(mesh_data.faces) :
            LET fd == mesh_data.faces[s]
                face == shape.faces[fd.id[2] + 1]
                vbase == SumVertexCount(SubSeq(mesh_data.faces, 1, s - 1))
                tbase == SumTriangleCount(SubSeq(mesh_data.faces, 1, s - 1))
            IN /\ fd.triangleCount = Len(face.triangles)
               /\ Len(fd.indices) = 3 * Len(face.triangles)
               /\ \A p \in 1..(3 * Len(face.triangles)) :
                     LET want == Transformed(face.nodes[NodeRef(face.triangles, p)],
                                             shape.location)
                         g == mesh_data.indices[3 * tbase + p]
                     IN /\ fd.vertices[fd.indices[p] + 1] = want
                        /\ VertexAt(mesh_data.vertices, g) = want
                        /\ g = fd.indices[p] + vbase
               /\ \A k \in 1..fd.triangleCount :
                     mesh_data.faceIdByTriangle[tbase + k] = fd.id

\* two triangulated faces under a placement that is not the identity, the
\* second with two triangles
C7_Witness ==
    /\ pc = "done"
    /\ shape.location # IdTrsf
    /\ Len(mesh_data.faces) = 2
    /\ mesh_data.faces[1].triangleCount > 0
    /\ mesh_data.faces[2].triangleCount = 2
    /\ mesh_data.faces[2].indices # mesh_data.faces[1].indices

\* C8: within a face, deduplication is by node identifier only: the local
\* vertex count is the number of distinct identifiers referenced, local indices
\* are assigned 0,1,2,... in first-seen order, the same identifier always gets
\* the same index, and no index ever reaches the current local vertex count.
C8_DedupByNodeIdentifier ==
    /\ \A p \in 1..Len(face_indices) :
          face_indices[p] >= 0 /\ face_indices[p] < Len(face_vertices)
    /\ pc = "triangle" =>
          /\ Len(face_indices) = 3 * tri_i + (corner - 1)
          /\ Len(face_vertices) = Cardinality(RefSet(CurFace.triangles, Len(face_indices)))
          /\ DOMAIN vertex_map = RefSet(CurFace.triangles, Len(face_indices))
          /\ \A p \in 1..Len(face_indices) :
                /\ face_indices[p] = FirstSeenRank(CurFace.triangles, p)
                /\ face_indices[p] = vertex_map[NodeRef(CurFace.triangles, p)]
    /\ \A s \in 1..Len(faces_data) :
          faces_data[s].vertexCount =
              Cardinality(RefSet(shape.faces[faces_data[s].id[2] + 1].triangles,
                                 3 * faces_data[s].triangleCount))

\* a finished face whose triangles reference the coincident nodes 1 and 3 and
\* repeat a node: three identifiers (3, 1, 2), three vertices, two of them equal
C8_Witness ==
    /\ pc = "triangle"
    /\ CurFace.triangles = <<(<<3, 1, 1>>), (<<1, 2, 3>>)>>
    /\ tri_i = 2
    /\ face_indices = <<0, 1, 1, 1, 2, 0>>
    /\ Len(face_vertices) = 3
    /\ face_vertices[1] = face_vertices[2]

(***************************************************************************)
(* The registry claims, checked under Spec                                 *)
(***************************************************************************)
RequestServed(op) == nreq' = nreq + 1 /\ last'.op = op

\* C2: transform(i) answers not-found exactly when no earlier create or import
\* inserted i: entries are never removed, every identifier ever inserted is
\* still there, and a not-found transform is an error result (404) that leaves
\* the registry and every stored shape unchanged.
C2_NotFoundIffNeverInserted ==
    [][/\ DOMAIN scene_objects \subseteq DOMAIN scene_objects'
       /\ DOMAIN moved' = DOMAIN scene_objects'
       /\ RequestServed("transform") =>
             /\ (last'.outcome = "not_found") <=> (last'.id \notin DOMAIN moved)
             /\ last'.outcome = "not_found" =>
                   last'.status = 404 /\ scene_objects' = scene_objects]_vars

\* a transform on identifier 2 is not found while identifier 1 is stored
C2_Witness ==
    /\ last.op = "transform"
    /\ last.outcome = "not_found"
    /\ last.id = 2
    /\ DOMAIN scene_objects = {1}

\* C3: whenever a create-box, create-cylinder, import or transform request
\* ends in a failure result, the registry is exactly as it was before the
\* request: no entry added, no stored shape's placement changed.
C3_FailureLeavesRegistryUnchanged ==
    [][(/\ nreq' = nreq + 1
        /\ last'.op \in {"create_box", "create_cylinder", "import", "transform"}
        /\ last'.status # 200)
          => scene_objects' = scene_objects]_vars

\* the extensions as the claim lists them
C4_EndsInAllowedExtension(name) ==
    \/ EndsWith(Lower(name), <<".", "s", "t", "e", "p">>)
    \/ EndsWith(Lower(name), <<".", "s", "t", "p">>)
    \/ EndsWith(Lower(name), <<".", "i", "g", "e", "s">>)
    \/ EndsWith(Lower(name), <<".", "i", "g", "s">>)

\* C4: an import whose file name does not end, case-insensitively, in .step,
\* .stp, .iges or .igs is rejected with a validation error before any kernel
\* call: no reader reads a file, no temp file is written, no registry entry
\* is created, and the outcome is never a processing error.
C4_DisallowedExtensionRejectedFirst ==
    (/\ last.op = "import"
     /\ last.arg.has_file
     /\ ~C4_EndsInAllowedExtension(last.arg.filename))
       => /\ last.outcome = "validation"
          /\ last.status = 400
          /\ last.calls = <<>>
          /\ last.stored = 0

\* a.step.txt holds an allowed extension but does not end in one
C4_Witness ==
    /\ last.op = "import"
    /\ last.arg.has_file
    /\ last.arg.filename = <<"a", ".", "s", "t", "e", "p", ".", "t", "x", "t">>
    /\ last.arg.content = "solid"
    /\ last.outcome = "validation"

\* C5: for a shape centred at creation, after any sequence of successful
\* translation-only transform requests the bounding-box centre is the
\* component-wise sum of the requested translations (a missing x, y or z
\* counts as 0), and a request with neither translation nor rotation leaves
\* the placement unchanged.
C5_CenterIsSumOfTranslations ==
    [][/\ \A i \in DOMAIN scene_objects' :
             moved'[i].pure =>
                /\ ~BndBox(scene_objects'[i]).void
                /\ BoxCenter(BndBox(scene_objects'[i])) = moved'[i].sum
       /\ (/\ RequestServed("transform")
           /\ last'.outcome = "ok"
           /\ DOMAIN last'.arg.data = {})
             => scene_objects' = scene_objects]_vars

\* translation {x:5, y:0, z:0} on a freshly centred shape: the centre is (5,0,0)
C5_Witness ==
    /\ nreq = 2
    /\ last.op = "transform"
    /\ last.outcome = "ok"
    /\ last.arg.data = [translation |-> [x |-> 5, y |-> 0, z |-> 0]]
    /\ moved[last.id].pure
    /\ BoxCenter(BndBox(scene_objects[last.id])) = <<5, 0, 0>>

C10_OutcomeOrder ==
    [][RequestServed("recognize") =>
          LET a == last'.arg
              missing == "points" \notin DOMAIN a.data \/ a.data.points = <<>>
          IN /\ last'.outcome =
                   IF Cylinder = "None" THEN "unavailable"
                   ELSE IF missing THEN "validation"
                   ELSE IF a.fit # "fitted" THEN "fit_failure"
                   ELSE "ok"
             /\ last'.outcome = "validation" => last'.calls = <<>>
             /\ Len(last'.calls) <= 1
             /\ scene_objects' = scene_objects]_vars

====
